---- MODULE Spec2Model ----
(***************************************************************************)
(* Covid-19 Model Ireland (Jupyter notebook): the next-generation-matrix   *)
(* estimate of R_0 and the six-compartment SEIR trajectory.                *)
(*                                                                         *)
(* The notebook is modelled as its code cells run top to bottom ("Run      *)
(* All"): pc names the next cell to run, a Python exception stops the run. *)
(* Python floats are modelled as exact rationals <<numerator, denominator>>*)
(* (denominator > 0, lowest terms), so that every tolerance of the         *)
(* specification is checked against the exact value.                       *)
(***************************************************************************)
EXTENDS Integers, Sequences, FiniteSets, TLC

(***************************************************************************)
(* Rational arithmetic: Python's float operators +, -, *, / and the        *)
(* comparisons, computed exactly.                                          *)
(***************************************************************************)
Abs(x) == IF x < 0 THEN -x ELSE x

RECURSIVE GCD(_, _)
GCD(a, b) == IF b = 0 THEN a ELSE GCD(b, a % b)

Q(n, dn) ==
    LET g == GCD(Abs(n), Abs(dn))
        s == IF dn < 0 THEN -1 ELSE 1
    IN  <<(s * n) \div g, (s * dn) \div g>>

I(n) == <<n, 1>>

RAdd(a, b) ==
    LET g == GCD(a[2], b[2])
    IN  Q(a[1] * (b[2] \div g) + b[1] * (a[2] \div g), (a[2] \div g) * b[2])

RNeg(a) == <<-a[1], a[2]>>

RSub(a, b) == RAdd(a, RNeg(b))

RMul(a, b) ==
    LET g1 == GCD(Abs(a[1]), b[2])
        g2 == GCD(Abs(b[1]), a[2])
    IN  IF a[1] = 0 \/ b[1] = 0
        THEN <<0, 1>>
        ELSE <<(a[1] \div g1) * (b[1] \div g2), (a[2] \div g2) * (b[2] \div g1)>>

\* a / b for b # 0 (a zero divisor raises ZeroDivisionError, see DivByZero)
RDiv(a, b) == RMul(a, IF b[1] < 0 THEN <<-b[2], -b[1]>> ELSE <<b[2], b[1]>>)

RIsZero(a) == a[1] = 0
RLe(a, b) == RSub(a, b)[1] <= 0
RLt(a, b) == RSub(a, b)[1] < 0
RAbs(a) == <<Abs(a[1]), a[2]>>

RECURSIVE RSum(_)
RSum(s) == IF s = <<>> THEN <<0, 1>> ELSE RAdd(Head(s), RSum(Tail(s)))

\* np.max over a sequence of numbers
RECURSIVE RMax(_)
RMax(s) ==
    IF Len(s) = 1 THEN s[1]
    ELSE LET m == RMax(Tail(s)) IN IF RLe(m, s[1]) THEN s[1] ELSE m

(***************************************************************************)
(* Matrices are sequences of rows.  la.inv and np.matmul.                  *)
(***************************************************************************)
Dim(M) == Len(M)

\* M without row i and column j
Minor(M, i, j) ==
    [r \in 1..(Dim(M) - 1) |->
        [c \in 1..(Dim(M) - 1) |->
            M[IF r < i THEN r ELSE r + 1][IF c < j THEN c ELSE c + 1]]]

RECURSIVE Det(_)
Det(M) ==
    IF Dim(M) = 1 THEN M[1][1]
    ELSE RSum([j \in 1..Dim(M) |->
                 IF RIsZero(M[1][j]) THEN <<0, 1>>
                 ELSE LET term == RMul(M[1][j], Det(Minor(M, 1, j)))
                      IN  IF j % 2 = 1 THEN term ELSE RNeg(term)])

\* la.inv(M) for a non-singular M: adjugate over determinant
MatInv(M) ==
    LET dt == Det(M)
    IN  [i \in 1..Dim(M) |->
            [j \in 1..Dim(M) |->
                LET co == Det(Minor(M, j, i))
                IN  RDiv(IF (i + j) % 2 = 0 THEN co ELSE RNeg(co), dt)]]

\* np.matmul(A, B)
MatMul(A, B) ==
    [i \in 1..Dim(A) |->
        [j \in 1..Dim(A) |->
            RSum([k \in 1..Dim(A) |-> RMul(A[i][k], B[k][j])])]]

IsUpperTriangular(M) ==
    \A i \in 1..Dim(M) : \A j \in 1..Dim(M) : i > j => RIsZero(M[i][j])

\* The eigenvalues of an upper triangular matrix are its diagonal entries;
\* la.eig returns them in an order the caller does not control (see CellR0).
Diagonal(M) == [i \in 1..Dim(M) |-> M[i][i]]

NoVal == <<>>

(***************************************************************************)
(* The parameter cell.  The notebook assigns one literal to each name; the *)
(* model draws each run's literals from a set.                             *)
(*   ParamSets: dyadic rates (betas 0 or 1, durations 1, 2, 4, f and d at  *)
(*   0, 1/2, 1), for the runs that go on to integrate: every duration is   *)
(*   at least the spacing of the output grid and the betas are at most 1,  *)
(*   the region where the modelled solver step is stable (odeint's step    *)
(*   control keeps its own steps there).                                   *)
(*   EstimatorParamSets: the notebook's rates and a second set of valid    *)
(*   durations, crossed with boundary values of the betas, f and d.        *)
(* Both include parameter sets with one invalid field each.  N = 0 is not  *)
(* drawn (S/N is then a float division by zero inside the solver callback: *)
(* inf/nan, not a number).                                                 *)
(***************************************************************************)
Params(bP, bA, bS, tE, tP, tI, tD, ff, dd, NN) ==
    [betaP |-> bP, betaA |-> bA, betaS |-> bS, tauE |-> tE, tauP |-> tP,
     tauI |-> tI, tauD |-> tD, f |-> ff, d |-> dd, N |-> NN]

\* Parameter sets with one field of p made invalid, and one with a singular V
\* ((1-d)/tauI + d/tauD = 0)
Invalidated(p) ==
    {[p EXCEPT !.tauE = I(0)],
     [p EXCEPT !.tauP = RNeg(p.tauP)],
     [p EXCEPT !.tauI = I(0)],
     [p EXCEPT !.tauD = I(0)],
     [p EXCEPT !.f = I(2)],
     [p EXCEPT !.f = Q(-1, 2)],
     [p EXCEPT !.d = I(2)],
     [p EXCEPT !.d = Q(-1, 2)],
     [p EXCEPT !.N = RNeg(p.N)],
     [p EXCEPT !.d = I(2), !.tauI = I(1), !.tauD = I(2)]}

Dyadic == Params(I(1), I(1), I(1), I(2), I(1), I(2), I(4), Q(1, 2), Q(1, 2), I(4))

ParamSets ==
    {Params(bP, bA, bS, ts[1], ts[2], ts[3], ts[4], ff, dd, NN) :
        bP \in {I(0), I(1)}, bA \in {I(0), I(1)}, bS \in {I(0), I(1)},
        ts \in {<<I(2), I(1), I(2), I(4)>>, <<I(1), I(2), I(1), I(2)>>},
        ff \in {I(0), Q(1, 2), I(1)}, dd \in {I(0), Q(1, 2), I(1)},
        NN \in {I(4), I(8)}}
    \cup Invalidated(Dyadic)

\* betaP .. d as the notebook sets them; R_0 does not read N
Notebook == Params(Q(4, 5), Q(4, 5), Q(4, 5), Q(7, 2), Q(3, 2), Q(7, 2), I(14),
                   Q(3, 10), Q(1, 20), I(4900000))

EstimatorParamSets ==
    {Params(bP, bA, bS, ts[1], ts[2], ts[3], ts[4], ff, dd, NN) :
        bP \in {I(0), Q(4, 5)}, bA \in {I(0), Q(4, 5)}, bS \in {I(0), Q(4, 5)},
        ts \in {<<Q(7, 2), Q(3, 2), Q(7, 2), I(14)>>, <<I(5), Q(1, 2), I(3), I(3)>>},
        ff \in {I(0), Q(3, 10), I(1)}, dd \in {I(0), Q(1, 20), I(1)},
        NN \in {I(4900000), I(1000)}}
    \cup Invalidated(Notebook)

VARIABLES
    betaP, betaA, betaS, tauE, tauP, tauI, tauD, f, d, N,  \* parameter cell
    V, F, G, R_0,                                          \* estimator cells
    y0, t, sol, dydt,                                      \* integrator cells
    S, E, Ip, Ia, Is, R,                                   \* result series
    pc, err

params == <<betaP, betaA, betaS, tauE, tauP, tauI, tauD, f, d, N>>
estimator == <<V, F, G, R_0>>
integrator == <<y0, t, sol, dydt>>
series == <<S, E, Ip, Ia, Is, R>>
vars == <<params, estimator, integrator, series, pc, err>>

\* The state once the import cell and the parameter cell have run.
InitFrom(ps) ==
    /\ \E p \in ps :
          /\ betaP = p.betaP /\ betaA = p.betaA /\ betaS = p.betaS
          /\ tauE = p.tauE /\ tauP = p.tauP /\ tauI = p.tauI /\ tauD = p.tauD
          /\ f = p.f /\ d = p.d /\ N = p.N
    /\ V = NoVal /\ F = NoVal /\ G = NoVal /\ R_0 = NoVal
    /\ y0 = NoVal /\ t = NoVal /\ sol = NoVal /\ dydt = NoVal
    /\ S = NoVal /\ E = NoVal /\ Ip = NoVal /\ Ia = NoVal /\ Is = NoVal /\ R = NoVal
    /\ pc = "V"
    /\ err = "none"

Init == InitFrom(ParamSets)

InitEstimator == InitFrom(EstimatorParamSets)

(***************************************************************************)
(* Reproduction-number estimator: V, F, G = F . inv(V), R_0.               *)
(***************************************************************************)
\* Faulty variant of V: the outflow of Is without the death rate d/tauD
VMatrix_NoDeathRate(tE, tP, tI, tD, ff, dd) ==
    LET one == I(1)
        z == I(0)
    IN  << <<RDiv(one, tE), z, z, z>>,
           <<RNeg(RDiv(one, tE)), RDiv(one, tP), z, z>>,
           <<z, RNeg(RDiv(ff, tP)), RDiv(one, tI), z>>,
           <<z, RNeg(RDiv(RSub(one, ff), tP)), z, RDiv(RSub(one, dd), tI)>> >>

\* Faulty variant of V: the whole outflow of Ip entered as the inflow of Is
VMatrix_UnsplitOutflow(tE, tP, tI, tD, ff, dd) ==
    LET one == I(1)
        z == I(0)
    IN  << <<RDiv(one, tE), z, z, z>>,
           <<RNeg(RDiv(one, tE)), RDiv(one, tP), z, z>>,
           <<z, RNeg(RDiv(ff, tP)), RDiv(one, tI), z>>,
           <<z, RNeg(RDiv(one, tP)), z,
             RAdd(RDiv(RSub(one, dd), tI), RDiv(dd, tD))>> >>

VMatrix(tE, tP, tI, tD, ff, dd) ==
    LET one == I(1)
        z == I(0)
    IN  << <<RDiv(one, tE), z, z, z>>,
           <<RNeg(RDiv(one, tE)), RDiv(one, tP), z, z>>,
           <<z, RNeg(RDiv(ff, tP)), RDiv(one, tI), z>>,
           <<z, RNeg(RDiv(RSub(one, ff), tP)), z,
             RAdd(RDiv(RSub(one, dd), tI), RDiv(dd, tD))>> >>

\* 1/tauE, 1/tauP, 1/tauI or d/tauD with a zero divisor: ZeroDivisionError
DivByZero(tE, tP, tI, tD) ==
    RIsZero(tE) \/ RIsZero(tP) \/ RIsZero(tI) \/ RIsZero(tD)

CellV ==
    /\ pc = "V"
    /\ IF DivByZero(tauE, tauP, tauI, tauD)
       THEN /\ err' = "ZeroDivisionError"
            /\ pc' = "error"
            /\ V' = V
       ELSE /\ V' = VMatrix(tauE, tauP, tauI, tauD, f, d)
            /\ pc' = "F"
            /\ err' = err
    /\ UNCHANGED <<params, F, G, R_0, integrator, series>>

\* Faulty variant of F: the Is column carries the notebook's betaS
FMatrix_SymptomaticRate(bP, bA) ==
    LET z == I(0)
    IN  << <<z, bP, bA, betaS>>, <<z, z, z, z>>, <<z, z, z, z>>, <<z, z, z, z>> >>

FMatrix(bP, bA) ==
    LET z == I(0)
    IN  << <<z, bP, bA, bA>>, <<z, z, z, z>>, <<z, z, z, z>>, <<z, z, z, z>> >>

CellF ==
    /\ pc = "F"
    /\ F' = FMatrix(betaP, betaA)
    /\ pc' = "G"
    /\ UNCHANGED <<params, V, G, R_0, integrator, series, err>>

\* la.inv raises LinAlgError("Singular matrix") when V has no inverse
NextGeneration(FF, VV) == MatMul(FF, MatInv(VV))

CellG ==
    /\ pc = "G"
    /\ IF RIsZero(Det(V))
       THEN /\ err' = "LinAlgError"
            /\ pc' = "error"
            /\ G' = G
       ELSE /\ G' = NextGeneration(F, V)
            /\ pc' = "R_0"
            /\ err' = err
    /\ UNCHANGED <<params, V, F, R_0, integrator, series>>

\* Faulty variant of the selection: the first eigenvalue la.eig returns,
\* la.eig(G)[0][0]
FirstEigenvalue(w) == w[1]

\* np.max(la.eig(G)[:1]): la.eig(G) is the pair (eigenvalues, eigenvectors),
\* [:1] keeps the eigenvalue array alone, np.max is its largest element.
DominantEigenvalue(w) == RMax(w)


CellR0 ==
    /\ pc = "R_0"
    /\ \E order \in Permutations(1..4) :
          R_0' = DominantEigenvalue([i \in 1..4 |-> Diagonal(G)[order[i]]])
    /\ pc' = "y0"
    /\ UNCHANGED <<params, V, F, G, integrator, series, err>>

\* The estimator cells alone
NextEstimator == CellV \/ CellF \/ CellG \/ CellR0

SpecEstimator == InitEstimator /\ [][NextEstimator]_vars

(***************************************************************************)
(* Trajectory integrator: SEIR, y0, t, sol = odeint(...), the six series.  *)
(***************************************************************************)
\* The terms of the right-hand sides at y = (S, E, Ip, Ia, Is, R), each as
\* the code writes it
Flows(y, bP, bA, bS, tE, tP, tI, tD, ff, dd, NN) ==
    LET cS == y[1]  cE == y[2]  cIp == y[3]  cIa == y[4]  cIs == y[5]
        one == I(1)
    IN  [infection |-> RMul(RDiv(cS, NN),
                            RAdd(RAdd(RMul(bP, cIp), RMul(bA, cIa)), RMul(bS, cIs))),
         incubation |-> RMul(RDiv(one, tE), cE),
         onset |-> RMul(RDiv(one, tP), cIp),
         asymptomatic |-> RMul(RDiv(ff, tP), cIp),
         symptomatic |-> RMul(RDiv(RSub(one, ff), tP), cIp),
         recoveryA |-> RMul(RDiv(one, tI), cIa),
         recoveryS |-> RMul(RDiv(RSub(one, dd), tI), cIs),
         death |-> RMul(RDiv(dd, tD), cIs)]

\* Faulty variant of SEIR: dR without the recoveries from Is
SEIR_NoSymptomaticRecovery(y, tt, bP, bA, bS, tE, tP, tI, tD, ff, dd, NN) ==
    LET x == Flows(y, bP, bA, bS, tE, tP, tI, tD, ff, dd, NN)
    IN  << RNeg(x.infection),
           RSub(x.infection, x.incubation),
           RSub(x.incubation, x.onset),
           RSub(x.asymptomatic, x.recoveryA),
           RSub(RSub(x.symptomatic, x.recoveryS), x.death),
           x.recoveryA >>

\* Faulty variant of SEIR: the infection term enters dS with the sign it has in dE
SEIR_InfectionSignSlip(y, tt, bP, bA, bS, tE, tP, tI, tD, ff, dd, NN) ==
    LET x == Flows(y, bP, bA, bS, tE, tP, tI, tD, ff, dd, NN)
    IN  << x.infection,
           RSub(x.infection, x.incubation),
           RSub(x.incubation, x.onset),
           RSub(x.asymptomatic, x.recoveryA),
           RSub(RSub(x.symptomatic, x.recoveryS), x.death),
           RAdd(x.recoveryA, x.recoveryS) >>

\* Faulty variant of SEIR: dE as the notebook's markdown cell prints it,
\* - 1/tauE without E
SEIR_MarkdownExposed(y, tt, bP, bA, bS, tE, tP, tI, tD, ff, dd, NN) ==
    LET x == Flows(y, bP, bA, bS, tE, tP, tI, tD, ff, dd, NN)
    IN  << RNeg(x.infection),
           RSub(x.infection, RDiv(I(1), tE)),
           RSub(x.incubation, x.onset),
           RSub(x.asymptomatic, x.recoveryA),
           RSub(RSub(x.symptomatic, x.recoveryS), x.death),
           RAdd(x.recoveryA, x.recoveryS) >>

\* Faulty variant of SEIR: the outflow of Ia taken from Ip, (1/tauI)*Ip
SEIR_WrongOutflow(y, tt, bP, bA, bS, tE, tP, tI, tD, ff, dd, NN) ==
    LET x == Flows(y, bP, bA, bS, tE, tP, tI, tD, ff, dd, NN)
    IN  << RNeg(x.infection),
           RSub(x.infection, x.incubation),
           RSub(x.incubation, x.onset),
           RSub(x.asymptomatic, RMul(RDiv(I(1), tI), y[3])),
           RSub(RSub(x.symptomatic, x.recoveryS), x.death),
           RAdd(x.recoveryA, x.recoveryS) >>

\* Faulty variant of SEIR: dR with the sign of the Is recovery slipped
SEIR_RemovedSignSlip(y, tt, bP, bA, bS, tE, tP, tI, tD, ff, dd, NN) ==
    LET x == Flows(y, bP, bA, bS, tE, tP, tI, tD, ff, dd, NN)
    IN  << RNeg(x.infection),
           RSub(x.infection, x.incubation),
           RSub(x.incubation, x.onset),
           RSub(x.asymptomatic, x.recoveryA),
           RSub(RSub(x.symptomatic, x.recoveryS), x.death),
           RSub(x.recoveryA, x.recoveryS) >>

\* Faulty variant of SEIR: S is not unpacked from y, so the name S is the
\* notebook global once the series cell has bound it
SEIR_ReadsGlobalS(y, tt, bP, bA, bS, tE, tP, tI, tD, ff, dd, NN) ==
    LET x == Flows([y EXCEPT ![1] = IF S = NoVal THEN y[1] ELSE S[Len(S)]],
                   bP, bA, bS, tE, tP, tI, tD, ff, dd, NN)
    IN  << RNeg(x.infection),
           RSub(x.infection, x.incubation),
           RSub(x.incubation, x.onset),
           RSub(x.asymptomatic, x.recoveryA),
           RSub(RSub(x.symptomatic, x.recoveryS), x.death),
           RAdd(x.recoveryA, x.recoveryS) >>

\* The derivative function: dydt in the order (dS, dE, dIp, dIa, dIs, dR);
\* tt is not used.
SEIR(y, tt, bP, bA, bS, tE, tP, tI, tD, ff, dd, NN) ==
    LET x == Flows(y, bP, bA, bS, tE, tP, tI, tD, ff, dd, NN)
    IN  << RNeg(x.infection),
           RSub(x.infection, x.incubation),
           RSub(x.incubation, x.onset),
           RSub(x.asymptomatic, x.recoveryA),
           RSub(RSub(x.symptomatic, x.recoveryS), x.death),
           RAdd(x.recoveryA, x.recoveryS) >>

\* y0 = [4.9*10**6, 1, 0, 0, 0, 0] in the notebook.  The model draws y0 from:
\* one exposed among N (sum N), the notebook's shape [N, 1, 0, 0, 0, 0]
\* (sum N + 1), a disease-free state, two states with every infected class
\* occupied, and a state with a negative component.
InitialStates(NN) ==
    LET n == NN[1]
        St(a, b, c, e, g, h) == <<I(a), I(b), I(c), I(e), I(g), I(h)>>
    IN  {St(n - 1, 1, 0, 0, 0, 0),
         St(n, 1, 0, 0, 0, 0),
         St(n - 1, 0, 0, 0, 0, 1),
         St(n - 3, 0, 1, 1, 1, 0),
         St(n - 4, 2, 1, 0, 1, 0),
         St(n + 1, -1, 0, 0, 0, 0)}

CellY0 ==
    /\ pc = "y0"
    /\ \E y \in InitialStates(N) : y0' = y
    /\ pc' = "t"
    /\ UNCHANGED <<params, estimator, t, sol, dydt, series, err>>

\* Last output day of the modelled time grid (the notebook's grid ends at 70)
TEnd == 2

\* np.linspace(0, T, T + 1): the days 0, 1, ..., T
Linspace(T) == [i \in 1..(T + 1) |-> i - 1]

CellT ==
    /\ pc = "t"
    /\ \E T \in 1..TEnd : t' = Linspace(T)
    /\ pc' = "odeint"
    /\ UNCHANGED <<params, estimator, y0, sol, dydt, series, err>>

\* One integration step of length h from y with derivative dy
Advance(y, dy, h) == [i \in 1..6 |-> RAdd(y[i], RMul(I(h), dy[i]))]

\* odeint(SEIR, yy, ts, args): the state at every requested time, the first
\* being yy itself.  The solver is modelled as the explicit one-step
\* recurrence over the output grid, each step calling SEIR with args.
RECURSIVE Odeint(_, _, _)
Odeint(yy, ts, args) ==
    IF Len(ts) = 1 THEN <<yy>>
    ELSE LET dy == SEIR(yy, ts[1], args[1], args[2], args[3], args[4], args[5],
                        args[6], args[7], args[8], args[9], args[10])
         IN  <<yy>> \o Odeint(Advance(yy, dy, ts[2] - ts[1]), Tail(ts), args)

CellOdeint ==
    /\ pc = "odeint"
    /\ sol' = Odeint(y0, t, params)
    /\ dydt' = [i \in 1..(Len(t) - 1) |->
                  SEIR(sol'[i], t[i], betaP, betaA, betaS, tauE, tauP, tauI,
                       tauD, f, d, N)]
    /\ pc' = "series"
    /\ UNCHANGED <<params, estimator, y0, t, series, err>>

\* sol[:, k]
Column(m, k) == [i \in 1..Len(m) |-> m[i][k]]

CellSeries ==
    /\ pc = "series"
    /\ S' = Column(sol, 1) /\ E' = Column(sol, 2) /\ Ip' = Column(sol, 3)
    /\ Ia' = Column(sol, 4) /\ Is' = Column(sol, 5) /\ R' = Column(sol, 6)
    /\ pc' = "done"
    /\ UNCHANGED <<params, estimator, integrator, err>>

\* The solver cell executed again once the series cell has rebound the names
\* S, E, Ip, Ia, Is, R (the notebook's execution counts: solver cell 79,
\* series cell 74).
CellOdeintAgain ==
    /\ pc = "done"
    /\ sol' = Odeint(y0, t, params)
    /\ dydt' = [i \in 1..(Len(t) - 1) |->
                  SEIR(sol'[i], t[i], betaP, betaA, betaS, tauE, tauP, tauI,
                       tauD, f, d, N)]
    /\ pc' = "rerun"
    /\ UNCHANGED <<params, estimator, y0, t, series, err>>

Next ==
    \/ CellV \/ CellF \/ CellG \/ CellR0
    \/ CellY0 \/ CellT \/ CellOdeint \/ CellSeries \/ CellOdeintAgain

Spec == Init /\ [][Next]_vars

(***************************************************************************)
(* Vocabulary of the properties.                                           *)
(***************************************************************************)
Zero == <<0, 1>>
IsPositive(a) == a[1] > 0
IsNonNegative(a) == a[1] >= 0

\* Positive durations, f and d in [0, 1], N > 0
ValidParams ==
    /\ IsPositive(tauE) /\ IsPositive(tauP) /\ IsPositive(tauI) /\ IsPositive(tauD)
    /\ RLe(Zero, f) /\ RLe(f, I(1))
    /\ RLe(Zero, d) /\ RLe(d, I(1))
    /\ IsPositive(N)

NonNegativeBetas ==
    IsNonNegative(betaP) /\ IsNonNegative(betaA) /\ IsNonNegative(betaS)

\* epsilon = 1e-6 * N
Epsilon == RDiv(N, I(1000000))

Total(y) == RSum(y)

\* a <= b + epsilon
LeWithin(a, b) == RLe(a, b) \/ RLe(a, RAdd(b, Epsilon))

NonNegativeState(y) == \A k \in 1..6 : IsNonNegative(y[k])

\* No negative component, components summing to N within epsilon
ValidInitialState(y) ==
    /\ NonNegativeState(y)
    /\ RLe(RAbs(RSub(Total(y), N)), Epsilon)

DiseaseFree(y) ==
    RIsZero(y[2]) /\ RIsZero(y[3]) /\ RIsZero(y[4]) /\ RIsZero(y[5])

Integrated == sol # NoVal

\* The solver's calls of SEIR: call i was made at the state sol[i]
Calls == DOMAIN dydt

C3_InvalidInputsRejected ==
    /\ (~ValidParams /\ pc # "V") =>
          (err # "none" /\ V = NoVal /\ ~Integrated)
    /\ (ValidParams /\ y0 # NoVal /\ ~ValidInitialState(y0)
          /\ pc \notin {"t", "odeint"}) =>
          (err # "none" /\ ~Integrated)

(***************************************************************************)
(* C4.  For betaP = betaA = betaS = 0.8, tauE = 3.5, tauP = 1.5,           *)
(* tauI = 3.5, tauD = 14, f = 0.3, d = 0.05 the estimator's R_0 is within  *)
(* 0.01 of 4.076; exactly, it is 1121/275.                                 *)
(***************************************************************************)
NotebookRates ==
    /\ betaP = Q(4, 5) /\ betaA = Q(4, 5) /\ betaS = Q(4, 5)
    /\ tauE = Q(7, 2) /\ tauP = Q(3, 2) /\ tauI = Q(7, 2) /\ tauD = I(14)
    /\ f = Q(3, 10) /\ d = Q(1, 20)

C4_NotebookR0 ==
    (NotebookRates /\ pc \notin {"V", "F", "G", "R_0"}) =>
        /\ err = "none"
        /\ R_0 = Q(1121, 275)
        /\ RLe(RAbs(RSub(R_0, Q(4076, 1000))), Q(1, 100))

C4_Witness == NotebookRates /\ R_0 # NoVal /\ pc = "y0"

(***************************************************************************)
(* C5.  For every valid parameter set with betas >= 0 the estimator        *)
(* produces a value R_0 that is a real number and is >= 0: the run raises  *)
(* no exception, G is triangular (its eigenvalues are its diagonal         *)
(* entries, all real) and R_0 >= 0.                                        *)
(***************************************************************************)
C5_R0RealNonNegative ==
    (ValidParams /\ NonNegativeBetas /\ pc \notin {"V", "F", "G", "R_0"}) =>
        /\ err = "none"
        /\ IsUpperTriangular(G)
        /\ R_0 # NoVal
        /\ IsNonNegative(R_0)

\* The estimator has finished on a boundary parameter set (d = 1) with a
\* positive result.
C5_Witness ==
    /\ ValidParams /\ NonNegativeBetas /\ d = I(1) /\ f = I(0)
    /\ pc = "y0" /\ IsPositive(R_0)

(***************************************************************************)
(* C6.  R_0 is the largest eigenvalue of G, the maximum over the whole     *)
(* eigenvalue list whatever order the eigen-solver returns it in: only the *)
(* first row of G is nonzero, its eigenvalues are G[0][0] and 0 three      *)
(* times, and for every valid parameter set R_0 = G[0][0].                 *)
(***************************************************************************)
C6_R0IsLargestEigenvalue ==
    R_0 # NoVal =>
        /\ \A i \in 2..4 : \A j \in 1..4 : RIsZero(G[i][j])
        /\ \A i \in 1..4 : RLe(Diagonal(G)[i], R_0)
        /\ \E i \in 1..4 : R_0 = Diagonal(G)[i]
        /\ (ValidParams /\ NonNegativeBetas) => R_0 = G[1][1]

\* R_0 was selected from a list whose largest element is not zero.
C6_Witness ==
    /\ R_0 # NoVal /\ ValidParams /\ IsPositive(G[1][1]) /\ R_0 = G[1][1]

(***************************************************************************)
(* C7.  For every state and parameter set SEIR returns exactly the six     *)
(* derivatives of the specified model, in the order (dS, dE, dIp, dIa,     *)
(* dIs, dR); the force of infection enters dS and dE with opposite sign,   *)
(* so dS + dE = -E/tauE.                                                   *)
(***************************************************************************)
\* The specified right-hand sides at the state y, written as in the claim
ForceOfInfection(y) ==
    RDiv(RMul(y[1], RAdd(RMul(betaP, y[3]), RAdd(RMul(betaA, y[4]), RMul(betaS, y[5])))), N)

SpecifiedDerivatives(y) ==
    << RNeg(ForceOfInfection(y)),
       RSub(ForceOfInfection(y), RDiv(y[2], tauE)),
       RSub(RDiv(y[2], tauE), RDiv(y[3], tauP)),
       RSub(RDiv(RMul(f, y[3]), tauP), RDiv(y[4], tauI)),
       RSub(RDiv(RMul(RSub(I(1), f), y[3]), tauP),
            RAdd(RDiv(RMul(RSub(I(1), d), y[5]), tauI), RDiv(RMul(d, y[5]), tauD))),
       RAdd(RDiv(y[4], tauI), RDiv(RMul(RSub(I(1), d), y[5]), tauI)) >>

C8_DiseaseFreeFixedPoint ==
    (Integrated /\ DiseaseFree(y0)) =>
        /\ \A i \in Calls : \A k \in 1..6 : RIsZero(dydt[i][k])
        /\ \A i \in DOMAIN sol : sol[i] = y0

\* A finished run of more than one step from a disease-free state with
\* S > 0 and R > 0, under valid parameters with positive betas.
C8_Witness ==
    /\ pc = "done" /\ ValidParams /\ DiseaseFree(y0)
    /\ IsPositive(y0[1]) /\ IsPositive(y0[6]) /\ IsPositive(betaP)
    /\ Len(sol) >= 3 /\ Len(dydt) >= 2

PersistentlyNegative(k) ==
    \A i \in DOMAIN sol : RLt(sol[i][k], RNeg(RAbs(Epsilon)))

C11_UnphysicalTrajectoryRejected ==
    (Integrated /\ ValidParams) => \A k \in 1..6 : ~PersistentlyNegative(k)

FAsDescribed ==
    F # NoVal =>
        /\ F[1] = <<Zero, betaP, betaA, betaA>>
        /\ \A i \in 2..4 : \A j \in 1..4 : RIsZero(F[i][j])

C14_TransmissionMatrix ==
    /\ []FAsDescribed
    /\ [][F # NoVal => F' = F]_vars

\* F is built from betaA # betaS and the run has gone on to its last cell.
C14_Witness ==
    /\ F # NoVal /\ betaA # betaS /\ betaP # betaS /\ IsPositive(betaA)
    /\ pc = "rerun"

(***************************************************************************)
(* C15.  R_0 does not depend on betaS or on N: two estimator runs whose    *)
(* parameter sets differ only in betaS and/or N give the same R_0, while   *)
(* dS/dt and dE/dt returned by SEIR for a state with S > 0 and Is > 0 do   *)
(* change with betaS.                                                      *)
(* The first half is stated as: in every run R_0 is the value of one       *)
(* expression in betaP, betaA, the durations, f and d alone, so runs that  *)
(* agree on those agree on R_0.  The second half compares each value SEIR  *)
(* returned with the value it returns for the other betaS.                 *)
(***************************************************************************)
\* betaP*tauP + betaA*f*tauI + betaA*(1-f) / ((1-d)/tauI + d/tauD)
R0WithoutBetaSAndN ==
    LET out == RAdd(RDiv(RSub(I(1), d), tauI), RDiv(d, tauD))
        g == RAdd(RAdd(RMul(betaP, tauP), RMul(RMul(betaA, f), tauI)),
                  RDiv(RMul(betaA, RSub(I(1), f)), out))
    IN  IF IsNonNegative(g) THEN g ELSE Zero

OtherBetaS == {I(0), I(1)} \ {betaS}

C15_R0IgnoresBetaSAndN ==
    /\ R_0 # NoVal => R_0 = R0WithoutBetaSAndN
    /\ \A i \in Calls :
          (IsPositive(sol[i][1]) /\ IsPositive(sol[i][5])) =>
              \A b \in OtherBetaS :
                  LET other == SEIR(sol[i], t[i], betaP, betaA, b, tauE, tauP,
                                    tauI, tauD, f, d, N)
                  IN  /\ other[1] # dydt[i][1]
                      /\ other[2] # dydt[i][2]
                      /\ \A k \in 3..6 : other[k] = dydt[i][k]

\* R_0 > 0 was computed with betaS # betaA and a symptomatic column that
\* matters (f < 1), and SEIR was called at a state with S > 0 and Is > 0.
C15_Witness ==
    /\ R_0 # NoVal /\ IsPositive(R_0) /\ betaS # betaA /\ f # I(1) /\ ValidParams
    /\ \E i \in Calls : IsPositive(sol[i][1]) /\ IsPositive(sol[i][5])

(***************************************************************************)
(* C16.  The transition matrix V over (E, Ip, Ia, Is) is lower triangular  *)
(* with diagonal (1/tauE, 1/tauP, 1/tauI, (1-d)/tauI + d/tauD), strictly   *)
(* positive for valid parameters; its only other possibly nonzero entries  *)
(* are V[Ip][E] = -1/tauE, V[Ia][Ip] = -f/tauP and V[Is][Ip] =             *)
(* -(1-f)/tauP, all <= 0, and the Ia and Is inflow coefficients sum to     *)
(* 1/tauP.                                                                 *)
(***************************************************************************)
Reciprocal(a) == RDiv(I(1), a)

C16_TransitionMatrix ==
    V # NoVal =>
        /\ \A i \in 1..4 : \A j \in 1..4 : i < j => RIsZero(V[i][j])
        /\ Diagonal(V) =
              <<Reciprocal(tauE), Reciprocal(tauP), Reciprocal(tauI),
                RDiv(RAdd(RMul(RSub(I(1), d), tauD), RMul(d, tauI)),
                     RMul(tauI, tauD))>>
        /\ V[2][1] = RNeg(Reciprocal(tauE))
        /\ V[3][2] = RNeg(RMul(f, Reciprocal(tauP)))
        /\ V[4][2] = RSub(RMul(f, Reciprocal(tauP)), Reciprocal(tauP))
        /\ RIsZero(V[3][1]) /\ RIsZero(V[4][1]) /\ RIsZero(V[4][3])
        /\ RAdd(V[3][2], V[4][2]) = RNeg(Reciprocal(tauP))
        /\ ValidParams =>
              /\ \A i \in 1..4 : IsPositive(V[i][i])
              /\ \A i \in 1..4 : \A j \in 1..4 : i # j => RLe(V[i][j], Zero)

\* V is built from valid parameters with f and d strictly inside (0, 1).
C16_Witness ==
    /\ V # NoVal /\ ValidParams
    /\ IsPositive(f) /\ RLt(f, I(1)) /\ IsPositive(d) /\ RLt(d, I(1))

(***************************************************************************)
(* C17.  For every valid parameter set (f = 0, f = 1, d = 0, d = 1         *)
(* included) V is invertible, so G = F*inv(V) never reaches the singular   *)
(* matrix error; that error is reached only when V is not invertible.      *)
(***************************************************************************)
DiagonalProduct(M) == RMul(RMul(M[1][1], M[2][2]), RMul(M[3][3], M[4][4]))

C17_ValidVIsInvertible ==
    /\ (ValidParams /\ pc \notin {"V", "F", "G"}) =>
          /\ err = "none"
          /\ G # NoVal
          /\ ~RIsZero(DiagonalProduct(V))
          /\ \A i \in 1..4 : \A j \in 1..4 :
                 MatMul(V, MatInv(V))[i][j] = IF i = j THEN I(1) ELSE Zero
    /\ err = "LinAlgError" => (V # NoVal /\ RIsZero(DiagonalProduct(V)))

\* The estimator has inverted V at the boundary f = 1, d = 1.
C17_Witness ==
    /\ ValidParams /\ f = I(1) /\ d = I(1) /\ G # NoVal /\ err = "none"

(***************************************************************************)
(* C18.  For every state and parameter set the six derivatives returned by *)
(* SEIR sum to exactly -(d/tauD)*Is; so, d and tauD being a valid fraction *)
(* and duration, along any trajectory with Is >= 0 the total               *)
(* S+E+Ip+Ia+Is+R never increases, and it stays constant over a step only  *)
(* when d = 0 or Is = 0.                                                   *)
(***************************************************************************)
DeathOutflow(y) == RDiv(RMul(d, y[5]), tauD)

C18_SumIsDeathOutflow ==
    /\ \A i \in Calls : RSum(dydt[i]) = RNeg(DeathOutflow(sol[i]))
    /\ ValidParams =>
          \A i \in Calls :
              IsNonNegative(sol[i][5]) =>
                  /\ RLe(Total(sol[i + 1]), Total(sol[i]))
                  /\ Total(sol[i + 1]) = Total(sol[i]) =>
                        (RIsZero(d) \/ RIsZero(sol[i][5]))

\* A valid run of two steps with 0 < d < 1 in which Is > 0 at each call and
\* the total fell over each step.
C18_Witness ==
    /\ ValidParams /\ IsPositive(d) /\ RLt(d, I(1)) /\ Len(sol) >= 3
    /\ \A i \in Calls :
          IsPositive(sol[i][5]) /\ RLt(Total(sol[i + 1]), Total(sol[i]))
====
